---- MODULE Spec2Model ----
(***************************************************************************)
(* Model of src/server.js: an Express service with three endpoints         *)
(* (POST /register, POST /login, GET /dashboard), a multer upload          *)
(* middleware, bcrypt password hashing, and one shared MySQL connection    *)
(* whose commands run first-in first-out.  The schema is provisioned by a  *)
(* chain of callbacks that starts when the connection opens, while the     *)
(* HTTP server accepts requests from process start.                        *)
(***************************************************************************)
EXTENDS Integers, Sequences, FiniteSets, TLC

\* ------------------------------------------------------------ bounds
\* Requests that arrive in one behaviour.
MaxReq == 2
\* Date.now() takes the values 0..MaxTime.
MaxTime == 1
\* Math.round(Math.random() * 1E9) takes the values 0..RandMax.
RandMax == 1

\* ------------------------------------------------------------ program constants
\* limits.fileSize
FileSizeLimit == 10 * 1024 * 1024
\* maxCount of each entry of upload.fields
MaxCount == 1

\* ------------------------------------------------------------ values
\* JavaScript undefined (an absent body field or query parameter)
Undefined == "undefined"
\* JavaScript null / SQL NULL
Null == "NULL"

Str(s) == [type |-> "string", val |-> s]
Num(s) == [type |-> "number", val |-> s]
NoValue == [type |-> "undefined", val |-> ""]

\* !v for a password value
Falsy(v) == v.type = "undefined" \/ (v.type = "string" /\ v.val = "") \/ (v.type = "number" /\ v.val = "0")
\* !s for a text field
\* a presence test that takes the empty string for a value
EmptyOnlyUndefined(s) == s = Undefined
Empty(s) == s = Undefined \/ s = ""

StartsWith(s, p) == Len(s) >= Len(p) /\ SubSeq(s, 1, Len(p)) = p

\* ------------------------------------------------------------ schema
BaseColumns == {"id", "fullname", "email", "password", "age", "gender", "reg_date"}
columnsToCheck == <<"profile_image", "cv_filename">>
AllColumns == BaseColumns \cup {"profile_image", "cv_filename"}
GenderEnum == {"male", "female", "other"}
NoTable == {}

\* ------------------------------------------------------------ bcrypt
Salts == {"s1", "s2"}
\* bcrypt.hash(password, 10) with the salt it drew; the digest is a one-way
\* image of (salt, password), written here as the pair itself
BcryptHash(pw, salt) == [alg |-> "bcrypt", cost |-> 10, salt |-> salt, digest |-> pw]
\* bcrypt.compare(data, hash) rejects unless both arguments are strings
CompareRejects(pw) == pw.type # "string"
BcryptCompare(pw, hash) == hash.digest = pw.val

\* ------------------------------------------------------------ state
VARIABLES
    conn,       \* db: "connecting", "open" or "failed"
    queue,      \* the connection's commands, run first-in first-out
    columns,    \* columns of table users in the store; NoTable when it does not exist
    users,      \* rows of table users, in insertion order
    nextId,     \* the table's AUTO_INCREMENT counter
    strict,     \* the server's sql_mode, "unknown" until a statement first depends on it:
                \* "strict" rejects a value a column cannot hold, "lax" stores its
                \* nearest value
    reqs,       \* the requests received so far, each with its position and responses
    now,        \* Date.now()
    disk,       \* uploads/: stored filename -> the part written under it
    alive,      \* FALSE once the process has ended
    issued      \* the schema statements the store has run, in order

vars == <<conn, queue, columns, users, nextId, strict, reqs, now, disk, alive, issued>>

\* SQL NULL in a filename column, and an absent req.files entry
NullName == <<>>

\* a row the table already held when the process started
OldRow(cols) ==
    [c \in cols |->
        CASE c = "id" -> 1
          [] c = "fullname" -> "Zed"
          [] c = "email" -> "z@x"
          [] c = "password" -> BcryptHash("pw1", "s1")
          [] c = "age" -> "40"
          [] c = "gender" -> "other"
          [] c = "reg_date" -> 0
          [] OTHER -> NullName]

Init ==
    /\ conn = "connecting"
    /\ queue = <<>>
    /\ \/ columns = NoTable /\ users = <<>> /\ nextId = 1
       \/ \E extra \in SUBSET {"profile_image", "cv_filename"} :
            /\ columns = BaseColumns \cup extra
            /\ users = <<OldRow(BaseColumns \cup extra)>>
            /\ nextId = 2
    /\ strict = "unknown"
    /\ reqs = <<>>
    /\ now = 0
    /\ disk = <<>>
    /\ alive = TRUE
    /\ issued = <<>>

\* ------------------------------------------------------------ responses
NoUser == <<>>
Json(status, error, message, userId, user) ==
    [status |-> status, ctype |-> "json", error |-> error, message |-> message,
     userId |-> userId, user |-> user]
JsonError(status, error) == Json(status, error, "", 0, NoUser)
\* Express's default error handler: the error multer passes to next(err)
DefaultErrorPage == [status |-> 500, ctype |-> "html", error |-> "", message |-> "",
                     userId |-> 0, user |-> NoUser]

Respond(r, resp) == [reqs EXCEPT ![r].pc = "done", ![r].resp = Append(@, resp)]

\* ------------------------------------------------------------ schema provisioning
Cmd(op, arg) == [op |-> op, arg |-> arg]
Issue(op, arg, ok, count) == Append(issued, [op |-> op, arg |-> arg, ok |-> ok, count |-> count])

\* db.connect's callback: the handshake ended
Connect ==
    /\ alive /\ conn = "connecting"
    /\ \E err \in BOOLEAN :
        IF err
        THEN /\ conn' = "failed"
             /\ UNCHANGED queue
        ELSE /\ conn' = "open"
             /\ queue' = Append(queue, Cmd("CREATE_DATABASE", ""))
    /\ UNCHANGED <<columns, users, nextId, strict, reqs, now, disk, alive, issued>>

\* CREATE DATABASE IF NOT EXISTS user_registration, and its callback
ExecCreateDatabase ==
    /\ alive /\ conn = "open" /\ queue # <<>> /\ Head(queue).op = "CREATE_DATABASE"
    /\ \E err \in BOOLEAN :
        /\ queue' = IF err THEN Tail(queue) ELSE Append(Tail(queue), Cmd("USE", ""))
        /\ issued' = Issue("CREATE_DATABASE", "", ~err, 0)
    /\ UNCHANGED <<conn, columns, users, nextId, strict, reqs, now, disk, alive>>

\* USE user_registration, and its callback
ExecUseDatabase ==
    /\ alive /\ conn = "open" /\ queue # <<>> /\ Head(queue).op = "USE"
    /\ \E err \in BOOLEAN :
        /\ queue' = IF err THEN Tail(queue) ELSE Append(Tail(queue), Cmd("CREATE_TABLE", ""))
        /\ issued' = Issue("USE", "", ~err, 0)
    /\ UNCHANGED <<conn, columns, users, nextId, strict, reqs, now, disk, alive>>

\* checkAndAddColumns: one existence query per column, queued in order
checkAndAddColumns(q) ==
    q \o [i \in 1..Len(columnsToCheck) |-> Cmd("CHECK_COLUMN", columnsToCheck[i])]

\* CREATE TABLE IF NOT EXISTS users (...), and its callback
ExecCreateTable ==
    /\ alive /\ conn = "open" /\ queue # <<>> /\ Head(queue).op = "CREATE_TABLE"
    /\ \E err \in BOOLEAN :
        /\ queue' = IF err THEN Tail(queue) ELSE checkAndAddColumns(Tail(queue))
        /\ columns' = IF ~err /\ columns = NoTable THEN AllColumns ELSE columns
        /\ issued' = Issue("CREATE_TABLE", "", ~err, 0)
    /\ UNCHANGED <<conn, users, nextId, strict, reqs, now, disk, alive>>

\* SELECT COUNT(*) ... information_schema.columns ... column_name = column
\* an existence check that never finds the column
ColumnCountZero(column) == 0
ColumnCount(column) == IF column \in columns THEN 1 ELSE 0

\* the existence query of one column, and its callback
ExecCheckColumn ==
    /\ alive /\ conn = "open" /\ queue # <<>> /\ Head(queue).op = "CHECK_COLUMN"
    /\ LET column == Head(queue).arg IN
       \E err \in BOOLEAN :
        /\ queue' = IF ~err /\ ColumnCount(column) = 0
                    THEN Append(Tail(queue), Cmd("ADD_COLUMN", column))
                    ELSE Tail(queue)
        /\ issued' = Issue("CHECK_COLUMN", column, ~err, ColumnCount(column))
    /\ UNCHANGED <<conn, columns, users, nextId, strict, reqs, now, disk, alive>>

\* ALTER TABLE users ADD COLUMN column VARCHAR(255): every row gets NULL in it
AddColumn(rows, column) ==
    [i \in 1..Len(rows) |-> [c \in DOMAIN rows[i] \cup {column} |->
        IF c \in DOMAIN rows[i] THEN rows[i][c] ELSE NullName]]

\* the ALTER TABLE of one column, and its callback
ExecAddColumn ==
    /\ alive /\ conn = "open" /\ queue # <<>> /\ Head(queue).op = "ADD_COLUMN"
    /\ LET column == Head(queue).arg IN
       \E err \in BOOLEAN :
        LET fails == err \/ columns = NoTable \/ column \in columns IN
        /\ queue' = Tail(queue)
        /\ columns' = IF fails THEN columns ELSE columns \cup {column}
        /\ users' = IF fails THEN users ELSE AddColumn(users, column)
        /\ issued' = Issue("ADD_COLUMN", column, ~fails, 0)
    /\ UNCHANGED <<conn, nextId, strict, reqs, now, disk, alive>>

\* ------------------------------------------------------------ upload handler
\* storage.filename: <prefix>-<Date.now()>-<random><extname(originalname)>
filename(file, ts, rnd) ==
    IF file.fieldname = "image" THEN <<"profile", ts, rnd, file.ext>>
    ELSE IF file.fieldname = "cv" THEN <<"cv", ts, rnd, file.ext>>
    ELSE <<file.fieldname, ts, rnd, file.ext>>

\* fileFilter: TRUE is cb(null, true), FALSE is cb(new Error('Invalid file type'), false)
\* a filter that looks at the MIME type and not at the field
fileFilterAnyField(file) ==
    StartsWith(file.mimetype, <<"image/">>) \/ file.mimetype = <<"application/pdf">>
fileFilter(file) ==
    IF file.fieldname = "image" /\ StartsWith(file.mimetype, <<"image/">>) THEN TRUE
    ELSE IF file.fieldname = "cv" /\ file.mimetype = <<"application/pdf">> THEN TRUE
    ELSE FALSE

\* upload.fields([{name: 'image', maxCount: 1}, {name: 'cv', maxCount: 1}])
uploadFields == {"image", "cv"}

\* what multer does with part i of a request: "" when it is stored
PartError(parts, i) ==
    LET file == parts[i]
        before == Cardinality({j \in 1..(i - 1) : parts[j].fieldname = file.fieldname})
    IN  IF file.fieldname \notin uploadFields \/ before >= MaxCount THEN "LIMIT_UNEXPECTED_FILE"
        ELSE IF ~fileFilter(file) THEN "Invalid file type"
        ELSE IF file.size > FileSizeLimit THEN "LIMIT_FILE_SIZE"
        ELSE ""

\* the first part multer rejects, 0 when it rejects none
FirstRejected(parts) ==
    LET bad == {i \in 1..Len(parts) : PartError(parts, i) # ""}
    IN  IF bad = {} THEN 0 ELSE CHOOSE i \in bad : \A j \in bad : i <= j

\* the parts multer wrote to uploads/ before it stopped
Written(parts) ==
    LET bad == FirstRejected(parts)
    IN  IF bad = 0 THEN 1..Len(parts)
        ELSE (1..(bad - 1)) \cup (IF PartError(parts, bad) = "LIMIT_FILE_SIZE" THEN {bad} ELSE {})

\* diskStorage writes each part under its generated name, replacing a file of that name
WriteFiles(d, names, written, r) ==
    LET new == {names[i] : i \in written}
    IN  [n \in DOMAIN d \cup new |->
            IF n \in new THEN [req |-> r, part |-> CHOOSE i \in written : names[i] = n]
            ELSE d[n]]

\* multer removes the files it wrote when it ends in an error
RemoveFiles(d, names, written) ==
    [n \in DOMAIN d \ {names[i] : i \in written} |-> d[n]]

\* req.files after multer: the stored name of each field's part
ReqFiles(parts, names, field) ==
    LET at == {i \in 1..Len(parts) : parts[i].fieldname = field}
    IN  IF at = {} THEN NullName ELSE names[CHOOSE i \in at : TRUE]

\* ------------------------------------------------------------ requests
NoHash == BcryptHash("", "")

NewRequest(kind, in) ==
    [kind |-> kind, in |-> in, pc |-> "new", resp |-> <<>>,
     parsed |-> FALSE,      \* the handler body ran
     hashed |-> FALSE,      \* bcrypt.hash produced a hash for it
     hash |-> NoHash,
     files |-> [defined |-> FALSE, image |-> NullName, cv |-> NullName],
     dbres |-> "",          \* what the store answered to its query
     user |-> <<>>,         \* results[0] of its SELECT
     at |-> [known |-> FALSE, owner |-> 0]]   \* what held when it arrived

\* rows whose email column equals email
ByEmail(email) == {i \in 1..Len(users) : users[i]["email"] = email}
\* rows whose id column equals id
ById(id) == {i \in 1..Len(users) : users[i]["id"] = id}

\* POST /register: multer, then the handler up to its first await
Register(in) ==
    /\ alive /\ Len(reqs) < MaxReq
    /\ LET r == Len(reqs) + 1
           parts == in.parts
           bad == FirstRejected(parts)
           new == [NewRequest("register", in) EXCEPT !.at.known = ByEmail(in.email) # {}]
       IN
       \E rnd \in [1..Len(parts) -> 0..RandMax] :
         LET names == [i \in 1..Len(parts) |-> filename(parts[i], now, rnd[i])]
             stored == WriteFiles(disk, names, Written(parts), r)
         IN
         IF in.ctype = "multipart" /\ bad # 0
         THEN /\ disk' = RemoveFiles(stored, names, Written(parts))
              /\ reqs' = Append(reqs, [new EXCEPT !.pc = "done", !.resp = <<DefaultErrorPage>>])
         ELSE /\ disk' = IF in.ctype = "multipart" THEN stored ELSE disk
              /\ LET files == IF in.ctype = "multipart"
                              THEN [defined |-> TRUE,
                                    image |-> ReqFiles(parts, names, "image"),
                                    cv |-> ReqFiles(parts, names, "cv")]
                              ELSE new.files
                     ran == [new EXCEPT !.parsed = TRUE, !.files = files]
                 IN  reqs' = Append(reqs,
                        IF Empty(in.fullname) \/ Empty(in.email) \/ Falsy(in.password)
                        THEN [ran EXCEPT !.pc = "done", !.resp =
                                <<JsonError(400, "Full name, email, and password are required")>>]
                        ELSE [ran EXCEPT !.pc = "hashing"])
    /\ UNCHANGED <<conn, queue, columns, users, nextId, strict, now, alive, issued>>

\* await bcrypt.hash(password, 10) settles; the handler runs on to db.query
HashDone(r) ==
    /\ alive /\ r \in 1..Len(reqs) /\ reqs[r].kind = "register" /\ reqs[r].pc = "hashing"
    /\ IF reqs[r].in.password.type # "string"
       THEN \* bcrypt.hash rejects: the catch block answers
            /\ reqs' = Respond(r, JsonError(500, "Server error"))
            /\ UNCHANGED queue
       ELSE \E salt \in Salts :
            LET h == BcryptHash(reqs[r].in.password.val, salt)
                done == [reqs EXCEPT ![r].hashed = TRUE, ![r].hash = h]
            IN  IF ~reqs[r].files.defined
                THEN \* req.files['image'] throws a TypeError: the catch block answers
                     /\ reqs' = [done EXCEPT ![r].pc = "done",
                                    ![r].resp = Append(@, JsonError(500, "Server error"))]
                     /\ UNCHANGED queue
                ELSE /\ reqs' = [done EXCEPT ![r].pc = "queued"]
                     /\ queue' = Append(queue, Cmd("INSERT", r))
    /\ UNCHANGED <<conn, columns, users, nextId, strict, now, disk, alive, issued>>

\* what column age INT holds for a bound value: numeric text is read as its number,
\* undefined is bound as NULL, other text is not a number
DecimalValue == ("7" :> "7") @@ ("07" :> "7")
IntAccepts(v) == v = Undefined \/ v \in DOMAIN DecimalValue
IntColumn(v) == IF v = Undefined THEN Null ELSE IF v \in DOMAIN DecimalValue THEN DecimalValue[v] ELSE "0"
\* what column gender ENUM('male','female','other') holds for a bound value
EnumAccepts(v) == v = Undefined \/ v \in GenderEnum
EnumColumn(v) == IF v = Undefined THEN Null ELSE IF v \in GenderEnum THEN v ELSE ""

\* an INSERT into a table whose email column has no UNIQUE key
InsertResultNoUnique(r, mode) ==
    LET in == reqs[r].in IN
    IF columns = NoTable THEN "ER_NO_SUCH_TABLE"
    ELSE IF ~(AllColumns \subseteq columns) THEN "ER_BAD_FIELD_ERROR"
    ELSE IF mode = "strict" /\ ~(IntAccepts(in.age) /\ EnumAccepts(in.gender))
         THEN "ER_TRUNCATED_WRONG_VALUE"
    ELSE "OK"
\* the store's answer to INSERT INTO users (...) VALUES (...) of request r under a mode
InsertResult(r, mode) ==
    LET in == reqs[r].in IN
    IF columns = NoTable THEN "ER_NO_SUCH_TABLE"
    ELSE IF ~(AllColumns \subseteq columns) THEN "ER_BAD_FIELD_ERROR"
    ELSE IF mode = "strict" /\ ~(IntAccepts(in.age) /\ EnumAccepts(in.gender))
         THEN "ER_TRUNCATED_WRONG_VALUE"
    ELSE IF ByEmail(in.email) # {} THEN "ER_DUP_ENTRY"
    ELSE "OK"

\* the modes the server may be in when it runs the INSERT of request r
SqlModes(r) ==
    IF strict # "unknown" THEN {strict}
    ELSE IF AllColumns \subseteq columns
            /\ ~(IntAccepts(reqs[r].in.age) /\ EnumAccepts(reqs[r].in.gender))
         THEN {"strict", "lax"}
    ELSE {"unknown"}

\* the row the INSERT of request r adds
NewRow(r) ==
    LET in == reqs[r].in IN
    [c \in AllColumns |->
        CASE c = "id" -> nextId
          [] c = "fullname" -> in.fullname
          [] c = "email" -> in.email
          [] c = "password" -> reqs[r].hash
          [] c = "age" -> IntColumn(in.age)
          [] c = "gender" -> EnumColumn(in.gender)
          [] c = "profile_image" -> reqs[r].files.image
          [] c = "cv_filename" -> reqs[r].files.cv
          [] c = "reg_date" -> now]

\* the response of the INSERT's callback
InsertResponse(res, insertId) ==
    IF res = "ER_DUP_ENTRY" THEN JsonError(400, "Email already registered")
    ELSE IF res # "OK" THEN JsonError(500, "Database error")
    ELSE Json(201, "", "User registered successfully", insertId, NoUser)

\* the store runs the INSERT at the head of the queue, and its callback answers
ExecInsert ==
    /\ alive /\ conn = "open" /\ queue # <<>> /\ Head(queue).op = "INSERT"
    /\ LET r == Head(queue).arg IN
       \E mode \in SqlModes(r) :
        LET res == InsertResult(r, mode) IN
        /\ strict' = mode
        /\ users' = IF res = "OK" THEN Append(users, NewRow(r)) ELSE users
        /\ nextId' = IF res = "OK" THEN nextId + 1 ELSE nextId
        /\ reqs' = [Respond(r, InsertResponse(res, nextId)) EXCEPT ![r].dbres = res]
    /\ queue' = Tail(queue)
    /\ UNCHANGED <<conn, columns, now, disk, alive, issued>>

\* ------------------------------------------------------------ login
\* a registration already answered 201 for these credentials
Registered(email, password) ==
    \E j \in 1..Len(reqs) :
        /\ reqs[j].kind = "register" /\ reqs[j].resp # <<>> /\ reqs[j].resp[1].status = 201
        /\ reqs[j].in.email = email /\ reqs[j].in.password = password

\* POST /login: the handler up to db.query
Login(in) ==
    /\ alive /\ Len(reqs) < MaxReq
    /\ LET r == Len(reqs) + 1
           new == [NewRequest("login", in) EXCEPT
                      !.parsed = TRUE, !.at.known = Registered(in.email, in.password)]
       IN  IF Empty(in.email) \/ Falsy(in.password)
           THEN /\ reqs' = Append(reqs, [new EXCEPT !.pc = "done", !.resp =
                                <<JsonError(400, "Email and password are required")>>])
                /\ UNCHANGED queue
           ELSE /\ reqs' = Append(reqs, [new EXCEPT !.pc = "queued"])
                /\ queue' = Append(queue, Cmd("SELECT_BY_EMAIL", r))
    /\ UNCHANGED <<conn, columns, users, nextId, strict, now, disk, alive, issued>>

\* the store runs SELECT * FROM users WHERE email = ?, and its callback runs up to
\* await bcrypt.compare
ExecLoginSelect ==
    /\ alive /\ conn = "open" /\ queue # <<>> /\ Head(queue).op = "SELECT_BY_EMAIL"
    /\ LET r == Head(queue).arg
           results == ByEmail(reqs[r].in.email)
       IN  IF columns = NoTable
           THEN reqs' = [Respond(r, JsonError(500, "Database error")) EXCEPT
                            ![r].dbres = "ER_NO_SUCH_TABLE"]
           ELSE IF results = {}
           THEN reqs' = [Respond(r, JsonError(401, "Invalid email or password")) EXCEPT
                            ![r].dbres = "OK"]
           ELSE reqs' = [reqs EXCEPT ![r].dbres = "OK", ![r].pc = "comparing",
                            ![r].user = users[CHOOSE i \in results : \A j \in results : i <= j]]
    /\ queue' = Tail(queue)
    /\ UNCHANGED <<conn, columns, users, nextId, strict, now, disk, alive, issued>>

\* const { password: _, ...userWithoutPassword } = user
\* a response that keeps the whole row
WithPassword(user) == user
WithoutPassword(user) == [c \in DOMAIN user \ {"password"} |-> user[c]]

\* await bcrypt.compare(password, user.password) settles inside the query callback; a
\* rejection there is caught by nothing: the request gets no response, and the
\* runtime either goes on or ends the process
CompareDone(r) ==
    /\ alive /\ r \in 1..Len(reqs) /\ reqs[r].kind = "login" /\ reqs[r].pc = "comparing"
    /\ IF CompareRejects(reqs[r].in.password)
       THEN /\ reqs' = [reqs EXCEPT ![r].pc = "rejected"]
            /\ alive' \in BOOLEAN
       ELSE /\ alive' = alive
            /\ IF BcryptCompare(reqs[r].in.password, reqs[r].user["password"])
               THEN reqs' = Respond(r, Json(200, "", "Login successful", 0,
                                            WithoutPassword(reqs[r].user)))
               ELSE reqs' = Respond(r, JsonError(401, "Invalid email or password"))
    /\ UNCHANGED <<conn, queue, columns, users, nextId, strict, now, disk, issued>>

\* ------------------------------------------------------------ dashboard
\* the number the store reads a text as when it compares it with column id
ToNumber == ("1" :> 1) @@ ("2" :> 2) @@ ("3" :> 3) @@ ("9" :> 9) @@ ("x" :> 0)

\* the registration whose 201 response carried this id, 0 when there is none
OwnerOf(id) ==
    LET js == {j \in 1..Len(reqs) :
                /\ reqs[j].kind = "register" /\ reqs[j].resp # <<>>
                /\ reqs[j].resp[1].status = 201 /\ reqs[j].resp[1].userId = id}
    IN  IF js = {} THEN 0 ELSE CHOOSE j \in js : TRUE

\* GET /dashboard: the handler up to db.query
Dashboard(in) ==
    /\ alive /\ Len(reqs) < MaxReq
    /\ LET r == Len(reqs) + 1
           new == [NewRequest("dashboard", in) EXCEPT !.parsed = TRUE]
       IN  IF Empty(in.userId)
           THEN /\ reqs' = Append(reqs, [new EXCEPT !.pc = "done", !.resp =
                                <<JsonError(401, "User ID required")>>])
                /\ UNCHANGED queue
           ELSE /\ reqs' = Append(reqs, [new EXCEPT !.pc = "queued",
                                            !.at.owner = OwnerOf(ToNumber[in.userId])])
                /\ queue' = Append(queue, Cmd("SELECT_BY_ID", r))
    /\ UNCHANGED <<conn, columns, users, nextId, strict, now, disk, alive, issued>>

\* the columns the dashboard query names
\* a SELECT list that names the password column too
DashboardColumnsAndPassword == {"id", "fullname", "email", "password", "age", "gender",
                                "profile_image", "cv_filename", "reg_date"}
DashboardColumns == {"id", "fullname", "email", "age", "gender", "profile_image",
                     "cv_filename", "reg_date"}

\* the store runs SELECT id, fullname, ... FROM users WHERE id = ?, and its callback answers
ExecDashboardSelect ==
    /\ alive /\ conn = "open" /\ queue # <<>> /\ Head(queue).op = "SELECT_BY_ID"
    /\ LET r == Head(queue).arg
           results == ById(ToNumber[reqs[r].in.userId])
       IN  IF columns = NoTable
           THEN reqs' = [Respond(r, JsonError(500, "Database error")) EXCEPT
                            ![r].dbres = "ER_NO_SUCH_TABLE"]
           ELSE IF ~(DashboardColumns \subseteq columns)
           THEN reqs' = [Respond(r, JsonError(500, "Database error")) EXCEPT
                            ![r].dbres = "ER_BAD_FIELD_ERROR"]
           ELSE IF results = {}
           THEN reqs' = [Respond(r, JsonError(404, "User not found")) EXCEPT ![r].dbres = "OK"]
           ELSE reqs' = [Respond(r, Json(200, "", "", 0,
                            [c \in DashboardColumns |-> users[CHOOSE i \in results : TRUE][c]]))
                         EXCEPT ![r].dbres = "OK"]
    /\ queue' = Tail(queue)
    /\ UNCHANGED <<conn, columns, users, nextId, strict, now, disk, alive, issued>>

\* ------------------------------------------------------------ the connection, the clock
\* a query on a connection whose handshake failed: its callback gets the error
FailQueued ==
    /\ alive /\ conn = "failed" /\ queue # <<>>
    /\ reqs' = [Respond(Head(queue).arg, JsonError(500, "Database error")) EXCEPT
                   ![Head(queue).arg].dbres = "CONNECTION_CLOSED"]
    /\ queue' = Tail(queue)
    /\ UNCHANGED <<conn, columns, users, nextId, strict, now, disk, alive, issued>>

\* a millisecond passes
Tick ==
    /\ alive /\ now < MaxTime
    /\ now' = now + 1
    /\ UNCHANGED <<conn, queue, columns, users, nextId, strict, reqs, disk, alive, issued>>

\* ------------------------------------------------------------ inputs
Part(fieldname, mimetype, ext, size) ==
    [fieldname |-> fieldname, mimetype |-> mimetype, ext |-> ext, size |-> size]
Image(size) == Part("image", <<"image/", "png">>, ".png", size)
Pdf(size) == Part("cv", <<"application/pdf">>, ".pdf", size)

\* a multipart/form-data body: every field is text
Form(fullname, email, password, age, gender, parts) ==
    [ctype |-> "multipart", fullname |-> fullname, email |-> email, password |-> Str(password),
     age |-> age, gender |-> gender, parts |-> parts]
\* an application/json body, which bodyParser.json() parses and multer passes by
JsonBody(fullname, email, password) ==
    [ctype |-> "json", fullname |-> fullname, email |-> email, password |-> password,
     age |-> Undefined, gender |-> Undefined, parts |-> <<>>]

\* registrations without uploads
PlainRegistrations ==
    {Form("Ann", "a@x", "pw1", "7", "male", <<>>),
     Form("Bob", "a@x", "pw2", "07", "x", <<>>),
     Form("Cy", "b@x", "pw1", Undefined, Undefined, <<>>)}

\* registrations the handler answers before it hashes
IncompleteRegistrations ==
    {Form("", "a@x", "pw1", "7", "male", <<>>),
     Form("Ann", Undefined, "pw1", "7", "male", <<>>),
     Form("Ann", "a@x", "", "7", "male", <<>>)}

\* a registration for the email of the row the table already held
RepeatedRegistrations == {Form("Zoe", "z@x", "pw2", "7", "female", <<>>)}

\* registrations with parts multer stores
AcceptedUploads ==
    {Form("Ann", "a@x", "pw1", "7", "male", <<Image(1), Pdf(1)>>),
     Form("Cy", "b@x", "pw1", "7", "male", <<Image(1)>>)}

\* registrations whose parts multer stores or rejects
FilteredUploads ==
    {Form("Ann", "a@x", "pw1", "7", "male", <<>>),
     Form("", "b@x", "pw1", "7", "male", <<Image(FileSizeLimit)>>),
     Form("", "b@x", "pw1", "7", "male", <<Pdf(1)>>),
     Form("", "b@x", "pw1", "7", "male", <<Part("image", <<"text/", "plain">>, ".txt", 1)>>),
     Form("Ann", "b@x", "pw1", "7", "male", <<Image(1), Image(1)>>)}
    \cup {Form("Ann", "b@x", "pw1", "7", "male", <<part>>) : part \in
            {Part("image", <<"text/", "plain">>, ".txt", 1),
             Part("image", <<"x-", "image/", "png">>, ".png", 1),
             Part("cv", <<"image/", "png">>, ".png", 1),
             Part("cv", <<"application/pdf", "+x">>, ".pdf", 1),
             Part("avatar", <<"image/", "png">>, ".png", 1),
             Image(FileSizeLimit + 1)}}

\* registrations sent as JSON
JsonRegistrations ==
    {JsonBody("Ann", "b@x", Num("123")), JsonBody("Ann", "b@x", Str("pw1"))}

\* registrations beside the logins: two for one email, one whose password is no
\* text, one with a part multer rejects
LoginRegistrations ==
    {Form("Ann", "a@x", "pw1", "7", "male", <<>>),
     Form("Bob", "a@x", "pw2", "07", "x", <<>>),
     JsonBody("Ann", "b@x", Num("123")),
     Form("Ann", "b@x", "pw1", "7", "male", <<Part("image", <<"text/", "plain">>, ".txt", 1)>>)}

LoginInputs ==
    {[email |-> "a@x", password |-> Str("pw1")],
     [email |-> "z@x", password |-> Str("pw1")],
     [email |-> "z@x", password |-> Str("pw2")],
     [email |-> "z@x", password |-> Num("123")],
     [email |-> "q@x", password |-> Num("123")],
     [email |-> "", password |-> Str("pw1")]}

\* logins whose credentials the store may hold
KnownLogins == {[email |-> "z@x", password |-> Str("pw1")]}

DashboardInputs == {[userId |-> u] : u \in {Undefined, "1", "2", "9"}}

\* ------------------------------------------------------------ specifications
\* Each specification runs the schema provisioning from process start together with
\* the requests of one group of inputs.

\* Registrations and logins.
NextLogin ==
    \/ Connect
    \/ ExecCreateDatabase
    \/ ExecUseDatabase
    \/ ExecCreateTable
    \/ ExecCheckColumn
    \/ ExecAddColumn
    \/ \E in \in LoginRegistrations : Register(in)
    \/ \E r \in 1..MaxReq : HashDone(r)
    \/ ExecInsert
    \/ \E in \in LoginInputs : Login(in)
    \/ ExecLoginSelect
    \/ \E r \in 1..MaxReq : CompareDone(r)
    \/ FailQueued

SpecLogin == Init /\ [][NextLogin]_vars

\* Registrations, dashboard lookups and logins.
NextDashboard ==
    \/ Connect
    \/ ExecCreateDatabase
    \/ ExecUseDatabase
    \/ ExecCreateTable
    \/ ExecCheckColumn
    \/ ExecAddColumn
    \/ \E in \in PlainRegistrations : Register(in)
    \/ \E r \in 1..MaxReq : HashDone(r)
    \/ ExecInsert
    \/ \E in \in KnownLogins : Login(in)
    \/ ExecLoginSelect
    \/ \E r \in 1..MaxReq : CompareDone(r)
    \/ \E in \in DashboardInputs : Dashboard(in)
    \/ ExecDashboardSelect
    \/ FailQueued

SpecDashboard == Init /\ [][NextDashboard]_vars

\* Registrations without uploads.
NextRegister ==
    \/ Connect
    \/ ExecCreateDatabase
    \/ ExecUseDatabase
    \/ ExecCreateTable
    \/ ExecCheckColumn
    \/ ExecAddColumn
    \/ \E in \in PlainRegistrations \cup RepeatedRegistrations \cup JsonRegistrations
                 \cup {Form("", "a@x", "pw1", "7", "male", <<>>)} : Register(in)
    \/ \E r \in 1..MaxReq : HashDone(r)
    \/ ExecInsert
    \/ FailQueued

SpecRegister == Init /\ [][NextRegister]_vars

\* Registrations whose parts multer stores or rejects.
NextFilter ==
    \/ Connect
    \/ ExecCreateDatabase
    \/ ExecUseDatabase
    \/ ExecCreateTable
    \/ ExecCheckColumn
    \/ ExecAddColumn
    \/ \E in \in IncompleteRegistrations \cup FilteredUploads : Register(in)
    \/ \E r \in 1..MaxReq : HashDone(r)
    \/ ExecInsert
    \/ FailQueued

SpecFilter == Init /\ [][NextFilter]_vars

\* Registrations with stored uploads as the clock advances.
NextUpload ==
    \/ Connect
    \/ ExecCreateDatabase
    \/ ExecUseDatabase
    \/ ExecCreateTable
    \/ ExecCheckColumn
    \/ ExecAddColumn
    \/ \E in \in AcceptedUploads : Register(in)
    \/ \E r \in 1..MaxReq : HashDone(r)
    \/ ExecInsert
    \/ FailQueued
    \/ Tick

SpecUpload == Init /\ [][NextUpload]_vars

\* ------------------------------------------------------------ properties
Requests(kind) == {r \in 1..Len(reqs) : reqs[r].kind = kind}
\* the handler of request r has run to its end
Finished(r) == reqs[r].pc \in {"done", "rejected"}
Answer(r) == reqs[r].resp[1]
Answered(r, resp) == reqs[r].resp = <<resp>>
\* an INSERT of request r waits in the connection's queue
InsertQueued(r) == \E i \in 1..Len(queue) : queue[i].op = "INSERT" /\ queue[i].arg = r
Emails == {users[i]["email"] : i \in 1..Len(users)}
MissingField(in) == Empty(in.fullname) \/ Empty(in.email) \/ Falsy(in.password)

\* C1 as stated: no email has two records, and every registration that arrives when
\* its email is already in the store is answered 400 'Email already registered' and
\* inserts nothing (read for a store whose connection opened and whose table has
\* all its columns).
C1_EveryLaterRegistrationIs400Duplicate ==
    /\ \A e \in Emails : Cardinality(ByEmail(e)) <= 1
    /\ \A r \in Requests("register") :
        /\ reqs[r].at.known /\ Finished(r)
        /\ reqs[r].dbres \notin {"CONNECTION_CLOSED", "ER_NO_SUCH_TABLE", "ER_BAD_FIELD_ERROR"}
        =>
            /\ Answered(r, JsonError(400, "Email already registered"))
            /\ reqs[r].dbres # "OK"

\* C1, amended: under every interleaving of registrations no email has two records; a
\* registration that arrives when its email is already in the store never inserts,
\* and it is answered 400 'Email already registered' whenever its INSERT reaches the
\* uniqueness check, that is unless a required field is missing, the handler throws,
\* or the store rejects the statement for its columns or values first; a registration
\* the store answers with a duplicate-entry error, early or late, gets that same 400,
\* and one it accepts gets 201 and the one record of its email.
C1_UniqueEmail ==
    /\ \A e \in Emails : Cardinality(ByEmail(e)) <= 1
    /\ \A r \in Requests("register") :
        /\ reqs[r].at.known => reqs[r].dbres # "OK" /\ ~(\E i \in 1..Len(reqs[r].resp) : reqs[r].resp[i].status = 201)
        /\ reqs[r].at.known /\ Finished(r) /\ ~MissingField(reqs[r].in)
              /\ reqs[r].in.ctype = "multipart"
              /\ reqs[r].dbres \notin {"ER_BAD_FIELD_ERROR", "ER_TRUNCATED_WRONG_VALUE", "CONNECTION_CLOSED"}
           => Answered(r, JsonError(400, "Email already registered"))
        /\ reqs[r].dbres = "ER_DUP_ENTRY" =>
              /\ Answered(r, JsonError(400, "Email already registered"))
              /\ ByEmail(reqs[r].in.email) # {}
        /\ reqs[r].dbres = "OK" =>
              /\ Cardinality(ByEmail(reqs[r].in.email)) = 1
              /\ Len(reqs[r].resp) = 1 /\ Answer(r).status = 201
              /\ \A i \in ByEmail(reqs[r].in.email) : users[i]["id"] = Answer(r).userId

\* Two registrations for one email were in flight together (neither found the email
\* in the store when it arrived); one was answered 201 and the other 400 duplicate.
C1_Witness ==
    \E r1, r2 \in Requests("register") :
        /\ r1 # r2 /\ reqs[r1].in.email = reqs[r2].in.email
        /\ ~reqs[r1].at.known /\ ~reqs[r2].at.known
        /\ Finished(r1) /\ Answer(r1).status = 201
        /\ Answered(r2, JsonError(400, "Email already registered"))

\* C2 as stated: a registration with all required fields whose email the store does
\* not hold, sent to a store whose connection opened, ends with 201 and a positive
\* userId, whatever its age and gender and whenever after process start it arrives.
C2_ValidRegistrationIs201 ==
    \A r \in Requests("register") :
        /\ Finished(r) /\ ~MissingField(reqs[r].in) /\ reqs[r].in.ctype = "multipart"
        /\ ~reqs[r].at.known /\ reqs[r].dbres \notin {"ER_DUP_ENTRY", "CONNECTION_CLOSED"}
        => /\ Len(reqs[r].resp) = 1 /\ Answer(r).status = 201 /\ Answer(r).userId > 0
           /\ Cardinality(ByEmail(reqs[r].in.email)) = 1

\* a part the upload handler takes, spelled from the specification of the filter
Acceptable(file) ==
    \/ file.fieldname = "image" /\ Len(file.mimetype) >= 1 /\ file.mimetype[1] = "image/"
    \/ file.fieldname = "cv" /\ file.mimetype = <<"application/pdf">>
TooLarge(file) == file.size > 10 * 1024 * 1024
SomePartRefused(in) == \E i \in 1..Len(in.parts) : ~Acceptable(in.parts[i]) \/ TooLarge(in.parts[i])
OnePartPerField(in) ==
    \A i, j \in 1..Len(in.parts) : in.parts[i].fieldname = in.parts[j].fieldname => i = j

\* C3 as stated: a registration with fullname, email or password missing or empty is
\* answered 400, and nothing is hashed or inserted for it.
C3_MissingFieldIs400 ==
    \A r \in Requests("register") :
        MissingField(reqs[r].in) =>
            /\ Finished(r) /\ Len(reqs[r].resp) = 1 /\ Answer(r).status = 400
            /\ ~reqs[r].hashed /\ reqs[r].dbres = "" /\ ~InsertQueued(r)

\* C3, amended: a registration with fullname, email or password missing or empty, none
\* of whose file parts the upload handler refuses, is answered 400 'Full name, email,
\* and password are required'; whether or not a part is refused, no hash is computed
\* and no INSERT is issued for it, and the store is left as it was.
C3_MissingFieldAfterUpload ==
    \A r \in Requests("register") :
        MissingField(reqs[r].in) =>
            /\ Finished(r) /\ Len(reqs[r].resp) = 1
            /\ ~SomePartRefused(reqs[r].in) /\ OnePartPerField(reqs[r].in) =>
                 Answered(r, JsonError(400, "Full name, email, and password are required"))
            /\ ~reqs[r].hashed /\ reqs[r].hash = NoHash
            /\ reqs[r].dbres = "" /\ ~InsertQueued(r)
            /\ \A i \in 1..Len(users) : users[i]["fullname"] # "" /\ users[i]["email"] # ""

\* A registration without fullname whose part multer stored was answered 400.
C3_Witness ==
    \E r \in Requests("register") :
        /\ Empty(reqs[r].in.fullname) /\ reqs[r].in.parts # <<>>
        /\ reqs[r].files.cv # NullName /\ Answer(r).status = 400

\* C8: a part passes the upload handler exactly when it is an 'image' part whose type
\* begins with 'image/' or a 'cv' part whose type is 'application/pdf', and it is at
\* most 10 MiB; a registration with any other part fails before the handler body runs:
\* it is answered with an error, nothing is hashed and nothing is inserted for it.  A
\* registration with one such part per field at most reaches the handler body.
C8_UploadFilter ==
    \A r \in Requests("register") :
        reqs[r].in.ctype = "multipart" =>
            /\ SomePartRefused(reqs[r].in) =>
                /\ Finished(r) /\ ~reqs[r].parsed
                /\ Len(reqs[r].resp) = 1 /\ Answer(r).status >= 400
                /\ ~reqs[r].hashed /\ reqs[r].dbres = "" /\ ~InsertQueued(r)
                /\ reqs[r].files.image = NullName /\ reqs[r].files.cv = NullName
                /\ \A n \in DOMAIN disk : disk[n].req # r
            /\ ~SomePartRefused(reqs[r].in) /\ OnePartPerField(reqs[r].in) =>
                /\ reqs[r].parsed
                /\ \A i \in 1..Len(reqs[r].in.parts) :
                     reqs[r].files[reqs[r].in.parts[i].fieldname] # NullName

\* A registration with valid fields and a part of the wrong type was refused, and one
\* with a 10 MiB image reached the handler.
C8_Witness ==
    /\ \E r \in Requests("register") :
        /\ ~MissingField(reqs[r].in) /\ SomePartRefused(reqs[r].in) /\ Finished(r)
    /\ \E r \in Requests("register") :
        /\ reqs[r].in.parts # <<>> /\ reqs[r].in.parts[1].size = 10 * 1024 * 1024 /\ reqs[r].parsed

\* C10 as stated: any two stored parts, of one request or of two, have different
\* names, so every filename a request holds is on disk with the part that request
\* uploaded.
C10_NamesNeverCollide ==
    \A r1, r2 \in Requests("register") : \A f1, f2 \in {"image", "cv"} :
        /\ reqs[r1].files[f1] # NullName /\ <<r1, f1>> # <<r2, f2>>
              => reqs[r1].files[f1] # reqs[r2].files[f2]
        /\ reqs[r1].files[f1] # NullName
              => /\ reqs[r1].files[f1] \in DOMAIN disk
                 /\ disk[reqs[r1].files[f1]].req = r1

\* C4 as stated: a login with a non-empty email and password whose lookup the store
\* answered, and which names no record or a record whose password does not match, is
\* answered 401 'Invalid email or password' in either case.
C4_UnknownEmailAndWrongPasswordAlike ==
    \A r \in Requests("login") :
        /\ Finished(r) /\ ~Empty(reqs[r].in.email) /\ ~Falsy(reqs[r].in.password)
        /\ reqs[r].dbres = "OK"
        /\ \/ DOMAIN reqs[r].user = {}
           \/ reqs[r].user["password"].digest # reqs[r].in.password.val
        => Answered(r, JsonError(401, "Invalid email or password"))

\* the row of table users a login response shows, without its password column
ShowsRecord(user, email) ==
    \E i \in ByEmail(email) :
        /\ DOMAIN user = DOMAIN users[i] \ {"password"}
        /\ \A c \in DOMAIN user : user[c] = users[i][c]

\* C5: a login that arrives after a registration was answered 201 for its email and
\* password is never left unanswered or refused; it is answered 200 with the
\* record's columns except password.  No login response holds a password column.
C5_LoginAfterRegistration ==
    \A r \in Requests("login") :
        /\ reqs[r].at.known => reqs[r].pc # "rejected"
        /\ reqs[r].at.known /\ Finished(r) =>
              /\ Len(reqs[r].resp) = 1 /\ Answer(r).status = 200
              /\ Answer(r).message = "Login successful"
              /\ ShowsRecord(Answer(r).user, reqs[r].in.email)
        /\ \A i \in 1..Len(reqs[r].resp) : "password" \notin DOMAIN reqs[r].resp[i].user

\* A login that followed a 201 for its credentials was answered.
C5_Witness ==
    \E r \in Requests("login") :
        reqs[r].at.known /\ Finished(r) /\ reqs[r].resp # <<>> /\ Answer(r).status = 200

\* C7 as stated: every request whose handler has run to its end has exactly one
\* response.
C7_EveryRequestAnsweredOnce ==
    \A r \in 1..Len(reqs) : Finished(r) => Len(reqs[r].resp) = 1

\* the value of a supplied field as the response shows it: absent as null, a
\* number in its plain form
Supplied(v) == IF v = Undefined THEN Null ELSE IF v \in {"7", "07"} THEN "7" ELSE v

Schema == {"CREATE_DATABASE", "USE", "CREATE_TABLE", "CHECK_COLUMN", "ADD_COLUMN"}
\* the schema statements run so far and those waiting in the queue, in order
Waiting(c) == c.op \in Schema
Statements ==
    LET waiting == SelectSeq(queue, Waiting)
    IN  issued \o [i \in 1..Len(waiting) |->
                     [op |-> waiting[i].op, arg |-> waiting[i].arg, ok |-> TRUE, count |-> 0]]
\* statement i comes after a successful run of statement (op, arg)
After(i, op, arg) ==
    \E j \in 1..Len(issued) : j < i /\ issued[j].op = op /\ issued[j].arg = arg /\ issued[j].ok
\* the existence check of statement i's column ran before it and counted no column
AfterAbsent(i) ==
    \E j \in 1..Len(issued) :
        /\ j < i /\ issued[j].op = "CHECK_COLUMN" /\ issued[j].arg = Statements[i].arg
        /\ issued[j].ok /\ issued[j].count = 0

\* C9: the schema statements run in the order create database, use database, create
\* table, then one existence check per column; each runs at most once and only after
\* the one before it succeeded, so a failed step is the last of its chain; ALTER TABLE
\* ADD COLUMN is issued for a column only after that column's check counted none, never
\* for a column the table has; once the table holds both columns no statement changes
\* it; no step removes or changes a row or a column; and no schema step, failed or
\* not, stops the process.
C9_Provisioning ==
    /\ [](/\ \A i \in 1..Len(Statements) :
              LET st == Statements[i] IN
              /\ \A j \in 1..Len(Statements) :
                    Statements[j].op = st.op /\ Statements[j].arg = st.arg => i = j
              /\ st.op = "CREATE_DATABASE" => i = 1 /\ conn = "open"
              /\ st.op = "USE" => After(i, "CREATE_DATABASE", "")
              /\ st.op = "CREATE_TABLE" => After(i, "USE", "")
              /\ st.op = "CHECK_COLUMN" =>
                    /\ After(i, "CREATE_TABLE", "")
                    /\ st.arg \in {"profile_image", "cv_filename"}
                    /\ i <= Len(issued) /\ st.ok /\ st.count = 0 =>
                          \E k \in 1..Len(Statements) :
                              k > i /\ Statements[k].op = "ADD_COLUMN" /\ Statements[k].arg = st.arg
                    /\ i <= Len(issued) /\ (~st.ok \/ st.count = 1) =>
                          \A k \in 1..Len(Statements) :
                              ~(Statements[k].op = "ADD_COLUMN" /\ Statements[k].arg = st.arg)
                    /\ i <= Len(issued) /\ st.count = 1 => st.arg \in columns
              /\ st.op = "ADD_COLUMN" =>
                    /\ AfterAbsent(i)
                    /\ i > Len(issued) => st.arg \notin columns
                    /\ i <= Len(issued) /\ st.ok => st.arg \in columns
          /\ conn # "open" => Statements = <<>>)
    /\ [][/\ columns \subseteq columns'
          /\ AllColumns \subseteq columns => columns' = columns
          /\ \A i \in 1..Len(users) :
                /\ Len(users') >= Len(users)
                /\ \A c \in DOMAIN users[i] : users'[i][c] = users[i][c]
          /\ issued' # issued =>
                /\ alive' = alive /\ reqs' = reqs /\ Len(users') = Len(users)
                /\ ~issued'[Len(issued')].ok => columns' = columns /\ users' = users
                /\ issued'[Len(issued')].op # "ADD_COLUMN" =>
                      users' = users /\ (columns # NoTable => columns' = columns)]_vars

\* One column was there and was left alone, the other was missing and was added,
\* and the row the table held is still in it.
C9_Witness ==
    /\ \E i \in 1..Len(issued) : issued[i].op = "CHECK_COLUMN" /\ issued[i].ok /\ issued[i].count = 1
    /\ \E i \in 1..Len(issued) : issued[i].op = "ADD_COLUMN" /\ issued[i].ok
    /\ Len(users) >= 1 /\ users[1]["email"] = "z@x" /\ AllColumns \subseteq columns

====
